---- MODULE Spec2Model ----
(***************************************************************************)
(* Conversational BI (src/app.py): a question typed into the text box is   *)
(* classified (detect_intent), compiled to one aggregate query             *)
(* (generate_sql), executed on the conversations table, and rendered by    *)
(* the intent-dispatched UI handler, which calls generate_text for the     *)
(* prose intents.                                                          *)
(*                                                                         *)
(* Text is a sequence of one-character strings, so that str.lower() and    *)
(* the substring test `w in q` are computed, not assumed.                  *)
(***************************************************************************)
EXTENDS Integers, Sequences, FiniteSets, TLC

VARIABLES
    dataset,    \* the conversations table (get_con), read-only after load
    question,   \* content of st.text_input
    stage,      \* "typing" | "answered" | "narrated"
    intent,     \* detect_intent(question) of the last handler run
    sql,        \* generate_sql(intent, question)
    result,     \* con.execute(sql).fetchdf()
    category,   \* which rendering branch of the handler ran
    display,    \* what that branch handed to the widget
    text,       \* value returned by generate_text, when it was called
    evaluated   \* aggregate computations generate_text performed, in order

vars == <<dataset, question, stage, intent, sql, result, category, display,
          text, evaluated>>

-----------------------------------------------------------------------------
(* Bounds of the model *)

\* longest question, in characters, the text box is filled with
MaxLen == 22

-----------------------------------------------------------------------------
(* Text *)

UpperAlpha ==
    <<"A","B","C","D","E","F","G","H","I","J","K","L","M",
      "N","O","P","Q","R","S","T","U","V","W","X","Y","Z">>

LowerAlpha ==
    <<"a","b","c","d","e","f","g","h","i","j","k","l","m",
      "n","o","p","q","r","s","t","u","v","w","x","y","z">>

\* the lowercase form of every upper-case letter
LowerOf ==
    [c \in {UpperAlpha[k] : k \in DOMAIN UpperAlpha} |->
        LowerAlpha[CHOOSE k \in DOMAIN UpperAlpha : UpperAlpha[k] = c]]

LowerChar(c) == IF c \in DOMAIN LowerOf THEN LowerOf[c] ELSE c

\* str.lower()
lower(s) == [i \in DOMAIN s |-> LowerChar(s[i])]

\* Python's `w in q` on strings: w occurs in q as a contiguous substring
Contains(q, w) ==
    \E i \in 0..(Len(q) - Len(w)) :
        \A j \in 1..Len(w) : q[i + j] = w[j]

\* any(w in q for w in words)
ContainsAny(q, words) == \E w \in words : Contains(q, w)

-----------------------------------------------------------------------------
(* Intent detection *)

Intents ==
    {"COUNT", "WHY", "DISTRIBUTION", "TOP", "PROBLEMS", "SUMMARY", "GENERAL"}

COUNT_WORDS ==
    { <<"h","o","w"," ","m","a","n","y">>,
      <<"c","o","u","n","t">>,
      <<"n","u","m","b","e","r">> }

WHY_WORDS ==
    { <<"w","h","y">>,
      <<"r","e","a","s","o","n">>,
      <<"c","a","u","s","e">> }

DISTRIBUTION_WORDS ==
    { <<"d","i","s","t","r","i","b","u","t","i","o","n">>,
      <<"b","r","e","a","k","d","o","w","n">>,
      <<"s","p","l","i","t">> }

TOP_WORDS ==
    { <<"m","o","s","t">>,
      <<"t","o","p">>,
      <<"h","i","g","h","e","s","t">> }

PROBLEMS_WORDS ==
    { <<"p","r","o","b","l","e","m","s">>,
      <<"f","a","c","i","n","g">> }

SUMMARY_WORDS ==
    { <<"o","v","e","r","v","i","e","w">>,
      <<"s","u","m","m","a","r","y">>,
      <<"a","n","a","l","y","z","e">> }

\* a slip that tests the DISTRIBUTION keywords above the WHY keywords
detect_intent_distribution_first(q0) ==
    LET q == lower(q0) IN
    IF ContainsAny(q, COUNT_WORDS) THEN "COUNT"
    ELSE IF ContainsAny(q, DISTRIBUTION_WORDS) THEN "DISTRIBUTION"
    ELSE IF ContainsAny(q, WHY_WORDS) THEN "WHY"
    ELSE IF ContainsAny(q, TOP_WORDS) THEN "TOP"
    ELSE IF ContainsAny(q, PROBLEMS_WORDS) THEN "PROBLEMS"
    ELSE IF ContainsAny(q, SUMMARY_WORDS) THEN "SUMMARY"
    ELSE "GENERAL"

detect_intent(q0) ==
    LET q == lower(q0) IN
    IF ContainsAny(q, COUNT_WORDS) THEN "COUNT"
    ELSE IF ContainsAny(q, WHY_WORDS) THEN "WHY"
    ELSE IF ContainsAny(q, DISTRIBUTION_WORDS) THEN "DISTRIBUTION"
    ELSE IF ContainsAny(q, TOP_WORDS) THEN "TOP"
    ELSE IF ContainsAny(q, PROBLEMS_WORDS) THEN "PROBLEMS"
    ELSE IF ContainsAny(q, SUMMARY_WORDS) THEN "SUMMARY"
    ELSE "GENERAL"

-----------------------------------------------------------------------------
(* SQL generation.  A query is the record of the clauses of the f-string.  *)

kw_pending == <<"p","e","n","d","i","n","g">>
kw_negative == <<"n","e","g","a","t","i","v","e">>
kw_frustrated == <<"f","r","u","s","t","r","a","t","e","d">>

CountAll ==
    [select |-> <<"value">>, where |-> "", group_by |-> <<>>, order_by |-> ""]

CountPending ==
    [select |-> <<"value">>, where |-> "resolution_status='Pending'",
     group_by |-> <<>>, order_by |-> ""]

CountNegative ==
    [select |-> <<"value">>, where |-> "sentiment='Negative'",
     group_by |-> <<>>, order_by |-> ""]

ByIssueSentiment ==
    [select |-> <<"issue_type", "sentiment", "count">>, where |-> "",
     group_by |-> <<"issue_type", "sentiment">>, order_by |-> ""]

ByIssuePending ==
    [select |-> <<"issue_type", "count">>,
     where |-> "resolution_status='Pending'",
     group_by |-> <<"issue_type">>, order_by |-> "count DESC"]

ByIssue ==
    [select |-> <<"issue_type", "count">>, where |-> "",
     group_by |-> <<"issue_type">>, order_by |-> "count DESC"]

\* a slip that hands COUNT the grouped Pending template
generate_sql_count_grouped(i, q0) ==
    LET q == lower(q0) IN
    IF i = "COUNT" THEN
        IF Contains(q, kw_pending) THEN ByIssuePending
        ELSE IF Contains(q, kw_negative) \/ Contains(q, kw_frustrated)
             THEN CountNegative
        ELSE CountAll
    ELSE IF i = "DISTRIBUTION" THEN ByIssueSentiment
    ELSE IF Contains(q, kw_pending) THEN ByIssuePending
    ELSE ByIssue

generate_sql(i, q0) ==
    LET q == lower(q0) IN
    IF i = "COUNT" THEN
        IF Contains(q, kw_pending) THEN CountPending
        ELSE IF Contains(q, kw_negative) \/ Contains(q, kw_frustrated)
             THEN CountNegative
        ELSE CountAll
    ELSE IF i = "DISTRIBUTION" THEN ByIssueSentiment
    ELSE \* i \in {"TOP", "WHY", "SUMMARY", "PROBLEMS", "GENERAL"}
        IF Contains(q, kw_pending) THEN ByIssuePending
        ELSE ByIssue

-----------------------------------------------------------------------------
(* The conversations table and query execution *)

it_Delivery == <<"D","e","l","i","v","e","r","y">>
it_Billing == <<"B","i","l","l","i","n","g">>
it_Refund == <<"R","e","f","u","n","d">>
it_General == <<"G","e","n","e","r","a","l">>
it_Product == <<"P","r","o","d","u","c","t">>
it_Login == <<"L","o","g","i","n">>

Row(it, s, r) == [issue_type |-> it, sentiment |-> s, resolution_status |-> r]

Rep(row, n) == [k \in 1..n |-> row]

\* a CSV with a header and no records
EmptyTable == <<>>

\* 8 rows: 4 Pending, 7 Negative; Billing leads overall, Delivery among Pending
PendingTable ==
    Rep(Row(it_Delivery, "Negative", "Pending"), 3)
    \o Rep(Row(it_Billing, "Positive", "Pending"), 1)
    \o Rep(Row(it_Billing, "Negative", "Resolved"), 4)

\* 5 rows, none Pending, General and Product tied for the lead
ResolvedTable ==
    Rep(Row(it_General, "Positive", "Resolved"), 2)
    \o Rep(Row(it_Product, "Neutral", "Resolved"), 2)
    \o Rep(Row(it_Refund, "Negative", "Resolved"), 1)

\* 16 rows over six issue types, Product and Login tied at the tail
SixTypeTable ==
    Rep(Row(it_Delivery, "Negative", "Pending"), 5)
    \o Rep(Row(it_Billing, "Negative", "Resolved"), 4)
    \o Rep(Row(it_Refund, "Negative", "Pending"), 3)
    \o Rep(Row(it_General, "Negative", "Resolved"), 2)
    \o Rep(Row(it_Product, "Negative", "Resolved"), 1)
    \o Rep(Row(it_Login, "Negative", "Pending"), 1)

DataSets == {EmptyTable, PendingTable, ResolvedTable, SixTypeTable}

\* WHERE clause
Where(w, t) ==
    IF w = "resolution_status='Pending'"
    THEN SelectSeq(t, LAMBDA r : r.resolution_status = "Pending")
    ELSE IF w = "sentiment='Negative'"
    THEN SelectSeq(t, LAMBDA r : r.sentiment = "Negative")
    ELSE t

\* the grouping key of a table row
GroupKey(g, r) ==
    IF g = <<"issue_type">> THEN <<r.issue_type>>
    ELSE <<r.issue_type, r.sentiment>>

\* GROUP BY g with COUNT(*): one result row per distinct key, count last
GroupCount(g, t) ==
    { k \o <<Cardinality({n \in DOMAIN t : GroupKey(g, t[n]) = k})>> :
        k \in {GroupKey(g, t[n]) : n \in DOMAIN t} }

RECURSIVE AnyOrder(_)
\* without ORDER BY the engine may return the groups in any order
AnyOrder(S) ==
    IF S = {} THEN {<<>>}
    ELSE UNION {{<<x>> \o p : p \in AnyOrder(S \ {x})} : x \in S}

RECURSIVE CountDesc(_)
\* ORDER BY count DESC: non-increasing count, equal counts in any order
CountDesc(S) ==
    IF S = {} THEN {<<>>}
    ELSE UNION {{<<x>> \o p : p \in CountDesc(S \ {x})} :
                  x \in {y \in S : \A z \in S : z[Len(z)] <= y[Len(y)]}}

\* con.execute(sql).fetchdf(): the frames the engine may return
Execute(s, t) ==
    LET rows == Where(s.where, t) IN
    IF s.group_by = <<>>
    THEN {[columns |-> s.select, rows |-> << <<Len(rows)>> >>]}
    ELSE {[columns |-> s.select, rows |-> o] :
            o \in IF s.order_by = "count DESC"
                  THEN CountDesc(GroupCount(s.group_by, rows))
                  ELSE AnyOrder(GroupCount(s.group_by, rows))}

-----------------------------------------------------------------------------
(* DataFrame access *)

\* df.empty
empty(df) == Len(df.rows) = 0 \/ Len(df.columns) = 0

HasColumn(df, c) == \E k \in DOMAIN df.columns : df.columns[k] = c

ColumnIndex(df, c) == CHOOSE k \in DOMAIN df.columns : df.columns[k] = c

\* row[c] for a row of df
Cell(df, row, c) == row[ColumnIndex(df, c)]

RECURSIVE SumCells(_, _)
SumCells(rows, k) ==
    IF rows = <<>> THEN 0 ELSE Head(rows)[k] + SumCells(Tail(rows), k)

\* df["count"].sum()
SumCount(df) == SumCells(df.rows, ColumnIndex(df, "count"))

-----------------------------------------------------------------------------
(* Insight text.  A returned string is the record of its f-string template *)
(* and the formatted values put into it.                                   *)

Digit == <<"0","1","2","3","4","5","6","7","8","9">>

RECURSIVE ToDigits(_)
\* decimal digits of a natural number
ToDigits(n) ==
    IF n < 10 THEN <<Digit[n + 1]>>
    ELSE ToDigits(n \div 10) \o <<Digit[(n % 10) + 1]>>

\* round(100 * cnt / total) to the nearest integer, halves to the even one
RoundPct(cnt, total) ==
    LET n == 100 * cnt
        fl == n \div total
        twice == 2 * (n % total)
    IN  IF twice < total THEN fl
        ELSE IF twice > total THEN fl + 1
        ELSE IF fl % 2 = 0 THEN fl ELSE fl + 1

\* f"{(cnt / total) * 100:.0f}" on numpy integers: a zero total divides to
\* nan (0/0) or inf with a warning, not an exception
FormatPct(cnt, total) ==
    IF total = 0
    THEN IF cnt = 0 THEN <<"n","a","n">> ELSE <<"i","n","f">>
    ELSE ToDigits(RoundPct(cnt, total))

RECURSIVE Join(_, _)
\* sep.join(items)
Join(sep, items) ==
    IF items = <<>> THEN <<>>
    ELSE IF Len(items) = 1 THEN items[1]
    ELSE items[1] \o sep \o Join(sep, Tail(items))

Str(template, args) == [kind |-> "str", template |-> template, args |-> args]

None == [kind |-> "None", template |-> "", args |-> <<>>]

\* df[c] on a frame that has no column c
KeyError(c) == [kind |-> "KeyError", template |-> c, args |-> <<>>]

\* positional access past the end of a frame
IndexError == [kind |-> "IndexError", template |-> "", args |-> <<>>]

\* generate_text was not called
NotCalled == [kind |-> "not called", template |-> "", args |-> <<>>]

NoData == Str("No data available.", <<>>)

kw_service == <<"s","e","r","v","i","c","e">>
kw_satisfaction == <<"s","a","t","i","s","f","a","c","t","i","o","n">>
kw_delivery == <<"d","e","l","i","v","e","r","y">>
kw_product == <<"p","r","o","d","u","c","t">>
kw_refund == <<"r","e","f","u","n","d">>
kw_unresolved == <<"u","n","r","e","s","o","l","v","e","d">>
kw_general == <<"g","e","n","e","r","a","l">>

\* the inner function of the WHY branch; df and total are its free variables
explain(df, total, keyword, label) ==
    LET sub == SelectSeq(df.rows,
                   LAMBDA r : Contains(lower(Cell(df, r, "issue_type")), keyword))
    IN  IF sub # <<>>
        THEN [ret |-> Str("{0} issues impact customers because they account for **{1}%** of reported cases, indicating resolution and process gaps.",
                          <<label, FormatPct(Cell(df, sub[1], "count"), total)>>),
              evaluated |-> <<"sum", "pct">>]
        ELSE [ret |-> None, evaluated |-> <<"sum">>]

\* lines 96-149: what generate_text does once the frame is known not to be empty
narrate(i, q0, df) ==
    LET q == lower(q0) IN
    IF ~HasColumn(df, "count")
    THEN [ret |-> KeyError("count"), evaluated |-> <<"sum">>]
    ELSE
    LET total == SumCount(df)
        top == df.rows[1]
    IN
    IF i = "WHY" THEN
        IF Contains(q, kw_service) \/ Contains(q, kw_satisfaction)
        THEN explain(df, total, kw_general, <<"S","e","r","v","i","c","e">>)
        ELSE IF Contains(q, kw_delivery)
        THEN explain(df, total, kw_delivery, <<"D","e","l","i","v","e","r","y">>)
        ELSE IF Contains(q, kw_product)
        THEN explain(df, total, kw_product, <<"P","r","o","d","u","c","t">>)
        ELSE IF Contains(q, kw_refund)
        THEN explain(df, total, kw_refund, <<"R","e","f","u","n","d">>)
        ELSE IF Contains(q, kw_pending) \/ Contains(q, kw_unresolved)
        THEN [ret |-> Str("Pending cases are increasing mainly due to **{0}** issues, which contribute **{1}%** of unresolved cases.",
                          <<Cell(df, top, "issue_type"),
                            FormatPct(Cell(df, top, "count"), total)>>),
              evaluated |-> <<"sum", "pct">>]
        ELSE [ret |-> Str("The primary reason is **{0}** issues, accounting for **{1}%** of total cases.",
                          <<Cell(df, top, "issue_type"),
                            FormatPct(Cell(df, top, "count"), total)>>),
              evaluated |-> <<"sum", "pct">>]
    ELSE IF i \in {"PROBLEMS", "SUMMARY", "GENERAL"} THEN
        LET top_issues == SubSeq(df.rows, 1,
                                 IF Len(df.rows) < 3 THEN Len(df.rows) ELSE 3)
            issue_list == Join(<<",", " ">>,
                               [k \in DOMAIN top_issues |->
                                    Cell(df, top_issues[k], "issue_type")])
        IN  [ret |-> Str("Customers mainly face issues related to **{0}**, with **{1}** being the most frequent, contributing **{2}%** of reported cases.",
                         <<issue_list, Cell(df, top, "issue_type"),
                           FormatPct(Cell(df, top, "count"), total)>>),
             evaluated |-> <<"sum", "pct">>]
    ELSE [ret |-> None, evaluated |-> <<"sum">>]

\* a slip that computes the total above the `if df.empty` guard
generate_text_sum_first(i, q0, df) ==
    IF ~HasColumn(df, "count")
    THEN [ret |-> KeyError("count"), evaluated |-> <<"sum">>]
    ELSE IF empty(df) THEN [ret |-> NoData, evaluated |-> <<"sum">>]
    ELSE narrate(i, q0, df)

generate_text(i, q0, df) ==
    IF empty(df) THEN [ret |-> NoData, evaluated |-> <<>>]
    ELSE narrate(i, q0, df)

-----------------------------------------------------------------------------
(* The UI handler *)

Sentiments(df) == {Cell(df, df.rows[k], "sentiment") : k \in DOMAIN df.rows}

IssueTypes(df) == {Cell(df, df.rows[k], "issue_type") : k \in DOMAIN df.rows}

\* result.pivot(index="issue_type", columns="sentiment", values="count").fillna(0)
pivot(df) ==
    [it \in IssueTypes(df) |->
        [s \in Sentiments(df) |->
            LET hit == {k \in DOMAIN df.rows :
                          /\ Cell(df, df.rows[k], "issue_type") = it
                          /\ Cell(df, df.rows[k], "sentiment") = s}
            IN  IF hit = {} THEN 0
                ELSE Cell(df, df.rows[CHOOSE k \in hit : TRUE], "count")]]

\* a slip that leaves TOP in the text-only list
render_category_top_as_text(i) ==
    IF i = "COUNT" THEN "KPI"
    ELSE IF i \in {"WHY", "SUMMARY", "PROBLEMS", "GENERAL", "TOP"} THEN "SUMMARY_TEXT"
    ELSE IF i = "DISTRIBUTION" THEN "STACKED_CHART"
    ELSE "NONE"

\* the branch of the handler's if/elif chain that runs for an intent:
\* st.metric, st.success, st.bar_chart(pivot), st.bar_chart(result)
render_category(i) ==
    IF i = "COUNT" THEN "KPI"
    ELSE IF i \in {"WHY", "SUMMARY", "PROBLEMS", "GENERAL"} THEN "SUMMARY_TEXT"
    ELSE IF i = "DISTRIBUTION" THEN "STACKED_CHART"
    ELSE IF i = "TOP" THEN "TABLE_CHART"
    ELSE "NONE"

NoSql == [select |-> <<>>, where |-> "", group_by |-> <<>>, order_by |-> ""]

NoFrame == [columns |-> <<>>, rows |-> <<>>]

\* what a rerun of the script shows when the button was not clicked
Blank ==
    /\ stage' = "typing"
    /\ intent' = "NONE"
    /\ sql' = NoSql
    /\ result' = NoFrame
    /\ category' = "NONE"
    /\ display' = <<>>
    /\ text' = NotCalled
    /\ evaluated' = <<>>

\* words the modelled user types
Vocabulary ==
    { <<"C","o","u","n","t">>,
      <<"W","h","y">>,
      <<"d","i","s","t","r","i","b","u","t","i","o","n">>,
      <<"m","o","s","t">>,
      <<"f","a","c","i","n","g">>,
      <<"o","v","e","r","v","i","e","w">>,
      kw_pending, kw_unresolved, kw_negative,
      <<"s","e","n","t","i","m","e","n","t">>,
      kw_service, kw_delivery }

Init ==
    /\ dataset \in DataSets
    /\ question = <<>>
    /\ stage = "typing"
    /\ intent = "NONE"
    /\ sql = NoSql
    /\ result = NoFrame
    /\ category = "NONE"
    /\ display = <<>>
    /\ text = NotCalled
    /\ evaluated = <<>>

\* the user extends the text box by one word; the rerun shows no answer
TypeWord(w) ==
    LET q == IF question = <<>> THEN w ELSE question \o <<" ">> \o w IN
    /\ Len(q) <= MaxLen
    /\ question' = q
    /\ Blank
    /\ UNCHANGED dataset

\* `if st.button("Ask") and question:` and the whole body under it.
\* A second click on an unchanged question runs the same handler on the same
\* inputs and can only reach the states the first click can, so the click is
\* taken once per typed question.
Ask ==
    /\ stage = "typing"
    /\ question # <<>>
    /\ LET i == detect_intent(question)
           s == generate_sql(i, question)
           c == render_category(i)
       IN  \E r \in Execute(s, dataset) :
             /\ intent' = i
             /\ sql' = s
             /\ result' = r
             /\ category' = c
             /\ IF c = "KPI"
                THEN \* st.metric("Result", int(result.iloc[0, 0]))
                     /\ display' = IF r.rows = <<>> THEN IndexError
                                    ELSE r.rows[1][1]
                     /\ text' = NotCalled
                     /\ evaluated' = <<>>
                ELSE IF c = "SUMMARY_TEXT"
                THEN \* st.success(generate_text(intent, question, result))
                     \E t \in {generate_text(i, question, r)} :
                     /\ display' = t.ret
                     /\ text' = t.ret
                     /\ evaluated' = t.evaluated
                ELSE IF c = "STACKED_CHART"
                THEN \* st.bar_chart(pivot)
                     /\ display' = pivot(r)
                     /\ text' = NotCalled
                     /\ evaluated' = <<>>
                ELSE \* st.bar_chart(result.set_index("issue_type"))
                     /\ display' = r.rows
                     /\ text' = NotCalled
                     /\ evaluated' = <<>>
    /\ stage' = "answered"
    /\ UNCHANGED <<dataset, question>>

Next == (\E w \in Vocabulary : TypeWord(w)) \/ Ask

Spec == Init /\ [][Next]_vars

-----------------------------------------------------------------------------
(* generate_text called directly, with every intent, on the frames its own *)
(* query returns and on frames a caller can build by hand.                 *)

\* longest question argument, in characters, of a direct call
MaxArgLen == 14

TextDataSets == {EmptyTable, PendingTable, ResolvedTable}

\* frames built by hand: empty ones of each column layout, and groups whose
\* counts are all zero
DirectFrames ==
    { [columns |-> <<"issue_type", "count">>, rows |-> <<>>],
      [columns |-> <<"value">>, rows |-> <<>>],
      [columns |-> <<"issue_type", "sentiment", "count">>, rows |-> <<>>],
      [columns |-> <<"issue_type", "count">>,
       rows |-> << <<it_Delivery, 0>>, <<it_Billing, 0>> >>] }

\* the frames the intent's own query returns on the loaded table
OwnFrames(i, q) == Execute(generate_sql(i, q), dataset)

InitText ==
    /\ dataset \in TextDataSets
    /\ question = <<>>
    /\ stage = "typing"
    /\ intent = "NONE"
    /\ sql = NoSql
    /\ result = NoFrame
    /\ category = "NONE"
    /\ display = <<>>
    /\ text = NotCalled
    /\ evaluated = <<>>

\* the caller extends the question argument by one word
ExtendQuestion(w) ==
    LET q == IF question = <<>> THEN w ELSE question \o <<" ">> \o w IN
    /\ Len(q) <= MaxArgLen
    /\ question' = q
    /\ Blank
    /\ UNCHANGED dataset

\* generate_text(i, question, df)
CallGenerateText(i, df) ==
    /\ stage = "typing"
    /\ \E t \in {generate_text(i, question, df)} :
         /\ text' = t.ret
         /\ evaluated' = t.evaluated
    /\ intent' = i
    /\ result' = df
    /\ stage' = "narrated"
    /\ UNCHANGED <<dataset, question, sql, category, display>>

NextText ==
    \/ \E w \in Vocabulary : ExtendQuestion(w)
    \/ \E i \in Intents :
         \E df \in OwnFrames(i, question) \cup DirectFrames :
            CallGenerateText(i, df)

SpecText == InitText /\ [][NextText]_vars

-----------------------------------------------------------------------------
(* Properties *)

\* the text mentions the word, letter case ignored
Mentions(t, w) ==
    \E k \in 0..(Len(t) - Len(w)) :
        \A j \in 1..Len(w) : LowerChar(t[k + j]) = LowerChar(w[j])

MentionsAny(t, words) == \E w \in words : Mentions(t, w)

\* the classifier's rule table as the specification lists it, by priority
Triggers ==
    << [intent |-> "COUNT",
        words |-> { <<"h","o","w"," ","m","a","n","y">>,
                    <<"c","o","u","n","t">>, <<"n","u","m","b","e","r">> }],
       [intent |-> "WHY",
        words |-> { <<"w","h","y">>, <<"r","e","a","s","o","n">>,
                    <<"c","a","u","s","e">> }],
       [intent |-> "DISTRIBUTION",
        words |-> { <<"d","i","s","t","r","i","b","u","t","i","o","n">>,
                    <<"b","r","e","a","k","d","o","w","n">>,
                    <<"s","p","l","i","t">> }],
       [intent |-> "TOP",
        words |-> { <<"m","o","s","t">>, <<"t","o","p">>,
                    <<"h","i","g","h","e","s","t">> }],
       [intent |-> "PROBLEMS",
        words |-> { <<"p","r","o","b","l","e","m","s">>,
                    <<"f","a","c","i","n","g">> }],
       [intent |-> "SUMMARY",
        words |-> { <<"o","v","e","r","v","i","e","w">>,
                    <<"s","u","m","m","a","r","y">>,
                    <<"a","n","a","l","y","z","e">> }] >>

\* the rules whose trigger set the question matches
Matching(t) == {k \in DOMAIN Triggers : MentionsAny(t, Triggers[k].words)}

\* C1: every answered question has exactly one of the seven intents: that of
\* the first rule, in the order COUNT, WHY, DISTRIBUTION, TOP, PROBLEMS,
\* SUMMARY, whose keyword set it mentions (case ignored), GENERAL when no rule
\* matches; a question mentioning a WHY and a DISTRIBUTION keyword and no
\* COUNT keyword is WHY.
C1_IntentPriority ==
    stage = "answered" =>
        /\ intent \in Intents
        /\ intent = IF Matching(question) = {} THEN "GENERAL"
                    ELSE Triggers[CHOOSE k \in Matching(question) :
                            \A m \in Matching(question) : k <= m].intent
        /\ (/\ MentionsAny(question, Triggers[2].words)
            /\ MentionsAny(question, Triggers[3].words)
            /\ ~MentionsAny(question, Triggers[1].words))
           => intent = "WHY"

C1_Witness ==
    /\ stage = "answered"
    /\ intent = "WHY"
    /\ Mentions(question, <<"d","i","s","t","r","i","b","u","t","i","o","n">>)
    /\ ~Contains(question, <<"w","h","y">>)

\* C2: a COUNT question compiles to the Pending count when it mentions
\* "pending" or "unresolved", else to the Negative count when it mentions
\* "negative" or "frustrated", else to the count of all rows.
C2_CountFilter ==
    (stage = "answered" /\ intent = "COUNT") =>
        sql = IF MentionsAny(question, {kw_pending, kw_unresolved})
                  THEN CountPending
              ELSE IF MentionsAny(question, {kw_negative, kw_frustrated})
                  THEN CountNegative
              ELSE CountAll

\* C3: a WHY question compiles to the Pending-filtered group-by-issue_type
\* query when it mentions "pending" or "unresolved", else to the
\* group-by-(issue_type, sentiment) query when it mentions "sentiment" or
\* "dissatisfied", else to the unfiltered group-by-issue_type query, the
\* issue_type queries sorted by count descending.
C3_WhyTemplate ==
    (stage = "answered" /\ intent = "WHY") =>
        IF MentionsAny(question, {kw_pending, kw_unresolved})
            THEN sql = ByIssuePending
        ELSE IF MentionsAny(question,
                    { <<"s","e","n","t","i","m","e","n","t">>,
                      <<"d","i","s","s","a","t","i","s","f","i","e","d">> })
            THEN sql.group_by = <<"issue_type", "sentiment">>
        ELSE sql = ByIssue

\* C4: the result of a TOP question has no more than 5 rows.
C4_TopAtMostFive ==
    (stage = "answered" /\ intent = "TOP") => Len(result.rows) <= 5

\* C5: a COUNT question's result has exactly one row and one column, and a
\* result of one row and one column is presented as a KPI whatever the intent.
C5_CountScalarKpi ==
    stage = "answered" =>
        /\ intent = "COUNT" =>
               (Len(result.rows) = 1 /\ Len(result.columns) = 1)
        /\ (Len(result.rows) = 1 /\ Len(result.columns) = 1) =>
               category = "KPI"

C5_Witness ==
    /\ stage = "answered"
    /\ intent = "COUNT"
    /\ sql = CountPending
    /\ Len(result.rows) = 1
    /\ Len(result.columns) = 1
    /\ category = "KPI"
    /\ display = 4

\* row count and column names of what a query returns on a table
Shape(s, t) ==
    [rows |-> IF s.group_by = <<>> THEN 1
              ELSE Cardinality(GroupCount(s.group_by, Where(s.where, t))),
     columns |-> s.select]

\* C6 as stated: apart from WHY the category depends on the result's shape
\* alone: any other non-WHY question whose result has the same row count and
\* column names gets the same category, and a non-WHY result of more than one
\* row with columns (issue_type, count) is presented as TABLE_CHART.
C6_ShapeDecides ==
    (stage = "answered" /\ intent # "WHY") =>
        /\ \A w \in Vocabulary :
              LET i2 == detect_intent(w) IN
              (/\ i2 # "WHY"
               /\ Shape(generate_sql(i2, w), dataset)
                    = [rows |-> Len(result.rows), columns |-> result.columns])
              => render_category(i2) = category
        /\ (Len(result.rows) > 1 /\ result.columns = <<"issue_type", "count">>)
              => category = "TABLE_CHART"

\* C6 as amended: the category depends on the intent alone (COUNT: KPI; WHY,
\* SUMMARY, PROBLEMS, GENERAL: SUMMARY_TEXT; DISTRIBUTION: STACKED_CHART;
\* TOP: TABLE_CHART), so a non-WHY result of more than one row with columns
\* (issue_type, count) is a TABLE_CHART exactly when the intent is TOP.
C6_IntentDecides ==
    stage = "answered" =>
        /\ category = CASE intent = "COUNT" -> "KPI"
                        [] intent = "DISTRIBUTION" -> "STACKED_CHART"
                        [] intent = "TOP" -> "TABLE_CHART"
                        [] OTHER -> "SUMMARY_TEXT"
        /\ (/\ intent # "WHY"
            /\ Len(result.rows) > 1
            /\ result.columns = <<"issue_type", "count">>)
           => (category = "TABLE_CHART" <=> intent = "TOP")

C6_Witness ==
    /\ stage = "answered"
    /\ intent = "TOP"
    /\ Len(result.rows) > 1
    /\ result.columns = <<"issue_type", "count">>
    /\ category = "TABLE_CHART"

\* C7: for every intent and question, generate_text on an empty frame returns
\* the no-data message, having attempted no aggregate or percentage.
C7_EmptyNoData ==
    (stage = "narrated" /\ result.rows = <<>>) =>
        (text = NoData /\ evaluated = <<>>)

C7_Witness ==
    /\ stage = "narrated"
    /\ intent = "DISTRIBUTION"
    /\ question # <<>>
    /\ result.rows = <<>>
    /\ text = NoData

\* C8: for each of the seven intents, generate_text on the non-empty result
\* of that intent's own query returns a sentence: not an absent value, not a
\* fault.
C8_AlwaysSentence ==
    (/\ stage = "narrated"
     /\ result.rows # <<>>
     /\ result \in OwnFrames(intent, question))
    => text.kind = "str"

\* the substring explain() looks for, for the first sub-issue keyword of the
\* question in the order service/satisfaction, delivery, product, refund
SubIssue(t) ==
    IF MentionsAny(t, {kw_service, kw_satisfaction}) THEN kw_general
    ELSE IF Mentions(t, kw_delivery) THEN kw_delivery
    ELSE IF Mentions(t, kw_product) THEN kw_product
    ELSE IF Mentions(t, kw_refund) THEN kw_refund
    ELSE <<>>

\* C9: a WHY question with a sub-issue keyword none of whose rows' issue_type
\* contains the corresponding substring still gets a sentence, naming the
\* overall-dominant (first) row's issue_type and its percentage share.
C9_SubIssueFallback ==
    (/\ stage = "answered"
     /\ intent = "WHY"
     /\ result.rows # <<>>
     /\ SubIssue(question) # <<>>
     /\ \A k \in DOMAIN result.rows :
           ~Mentions(result.rows[k][1], SubIssue(question)))
    => /\ text.kind = "str"
       /\ \E k \in DOMAIN text.args : text.args[k] = result.rows[1][1]

====
